---------------------------- MODULE Spec2Model ----------------------------
(***************************************************************************)
(* A model of hpraid_exporter.go: the size codec                           *)
(* (convertHumanReadableToBytes), the line extractors (ControllerParse,    *)
(* ArrayParse, DriveParse), the structural parser (genmetrics), the status *)
(* extractor (ArrayStatus) and the metric emission of collector.Collect.   *)
(*                                                                         *)
(* Text the code inspects character by character (size texts, numeric      *)
(* fields) is a sequence of one-character strings.  Status texts and the   *)
(* lines of the status report are sequences of pieces: a word, a digit, a  *)
(* comma, a label such as "Cache Status: ", each piece a TLA+ string that  *)
(* stands for its characters.  Text the code only copies (names, types,    *)
(* serial numbers) is a TLA+ string.                                       *)
(* Numbers that do not fit TLC's 32-bit integers (uint64 byte counts,      *)
(* 32-bit unsigned slots) are decimal numerals: sequences of digits with   *)
(* no leading zero.                                                        *)
(*                                                                         *)
(* A Go panic (an explicit panic(...) or a runtime panic on a nil slice    *)
(* index or nil pointer) is the record [panic |-> TRUE, msg |-> ...].      *)
(* genmetrics and Collect hold no recover: a panic unwinds both.           *)
(***************************************************************************)
EXTENDS Integers, Sequences, FiniteSets, TLC

VARIABLES
    \* convertHumanReadableToBytes, called on its own
    sizeIn,             \* the argument s
    sizeOut,            \* NotCalled before the call, then its outcome
    \* genmetrics
    hpinfo,             \* the lines of the report, as far as they are known
    lineNo,             \* index (from 0) of the next line of the range loop
    controllers,        \* []*Controller: the Controller objects in order
    currentController,  \* index into controllers, 0 for nil
    ret,                \* the Parsed value returned, "none" while none is
    pc,                 \* "parsing" | "done" | "panic"
    panicMsg,           \* the panic value when pc = "panic"
    \* collector.Collect and ArrayStatus
    gm,                 \* the Parsed value Collect works on
    cpc,                \* position of Collect
    labelIdx,           \* index of the next gm.Labels row
    ctrlIdx,            \* index of the gm.Controller element being handled
    statText,           \* lines of the status report read so far
    statRet,            \* ArrayStatus's ret: the observations
    statIdx,            \* index of the next observation of the range loop
    lastbat,            \* Collect's lastbat at the end of the last iteration
    ch                  \* the metrics sent on ch, in order

vars == << sizeIn, sizeOut, hpinfo, lineNo, controllers, currentController,
           ret, pc, panicMsg, gm, cpc, labelIdx, ctrlIdx, statText, statRet,
           statIdx, lastbat, ch >>

sizeVars == << sizeIn, sizeOut >>
parseVars == << hpinfo, lineNo, controllers, currentController, ret, pc,
                panicMsg >>
collectVars ==
    << gm, cpc, labelIdx, ctrlIdx, statText, statRet, statIdx, lastbat, ch >>

-----------------------------------------------------------------------------
(* Bounds *)

\* longest size text convertHumanReadableToBytes is called on by itself
MaxStrLen == 5
\* lines of one `ctrl all show config` report
MaxLines == 5
\* lines of one `ctrl slot=N show` report
MaxStatLines == 3

-----------------------------------------------------------------------------
(* Characters and numerals *)

Digits == {"0", "1", "2", "3", "4", "5", "6", "7", "8", "9"}

IsDigit(c) == c \in Digits

\* \s of the regexp package, as far as the model's alphabet goes
IsSpace(c) == c = " "

RECURSIVE SkipSpaces(_, _)
\* first index >= i of s that holds no white space (Len(s) + 1 if none)
SkipSpaces(s, i) ==
    IF i <= Len(s) /\ IsSpace(s[i]) THEN SkipSpaces(s, i + 1) ELSE i

RECURSIVE SkipDigits(_, _)
\* first index >= i of s that holds no digit (Len(s) + 1 if none)
SkipDigits(s, i) ==
    IF i <= Len(s) /\ IsDigit(s[i]) THEN SkipDigits(s, i + 1) ELSE i

RECURSIVE StripZeros(_)
\* the numeral of a digit string: its leading zeros dropped, "0" kept
StripZeros(d) ==
    IF Len(d) > 1 /\ d[1] = "0" THEN StripZeros(Tail(d)) ELSE d

RECURSIVE Zeros(_)
Zeros(n) == IF n <= 0 THEN << >> ELSE <<"0">> \o Zeros(n - 1)

\* the panic value is a tuple: the message and what it is formatted with
Panic(m) == [panic |-> TRUE, msg |-> <<m>>]

-----------------------------------------------------------------------------
(* Size codec *)

\* szRx = ^\s*((\d+)(\.\d+)?)\s+((K|M|G|T)B)?$ : FindStringSubmatch(s).
\* The result is << >> for no match, else the six submatches, matched[k] of
\* the code at position k + 1.
szRxFind(s) ==
    LET \* the number is s[a..c-1], its integer part s[a..b-1], and the unit,
        \* if any, starts at d
        Submatches(a, b, c, d) ==
            LET num == SubSeq(s, a, c - 1)
                int == SubSeq(s, a, b - 1)
                frac == SubSeq(s, b, c - 1)
            IN  IF b = a \/ d = c
                THEN << >>
                ELSE IF d = Len(s) + 1
                THEN << s, num, int, frac, << >>, << >> >>
                ELSE IF /\ d + 1 = Len(s)
                        /\ s[d] \in {"K", "M", "G", "T"}
                        /\ s[d + 1] = "B"
                THEN << s, num, int, frac, SubSeq(s, d, d + 1), <<s[d]>> >>
                ELSE << >>
        \* \s+ after the number
        AfterNumber(a, b, c) == Submatches(a, b, c, SkipSpaces(s, c))
        \* (\.\d+)? after the integer part
        AfterInt(a, b) ==
            AfterNumber(a, b,
                        IF /\ b + 1 <= Len(s)
                           /\ s[b] = "."
                           /\ IsDigit(s[b + 1])
                        THEN SkipDigits(s, b + 1) ELSE b)
        \* (\d+) after the leading white space
        AfterSpaces(a) == AfterInt(a, SkipDigits(s, a))
    IN  AfterSpaces(SkipSpaces(s, 1))

\* the switch on matched[5][0]: how many times mul is multiplied by 1000
\* (each case falls through to the next); -1 for the default case
MulSteps(prefix) ==
    CASE prefix = "E" -> 6
      [] prefix = "P" -> 5
      [] prefix = "T" -> 4
      [] prefix = "G" -> 3
      [] prefix = "M" -> 2
      [] prefix = "K" -> 1
      [] OTHER -> -1

\* uint64(n * float64(mul)) for n = int.frac and mul = 1000^k, as a numeral:
\* the decimal point moves 3k places to the right and the rest is cut off.
\* (Binary rounding of the float64 product is not modelled.)
ScaleNumeral(int, frac, k) ==
    LET f == frac \o Zeros(3 * k - Len(frac))
    IN  StripZeros(int \o SubSeq(f, 1, 3 * k))

convertHumanReadableToBytes(s) ==
    LET Convert(matched) ==
            IF Len(matched) = 0
            THEN Panic("no match for")
            ELSE IF Len(matched[6]) = 0
            THEN Panic("index out of range")
            ELSE IF MulSteps(matched[6][1]) < 0
            THEN Panic("Unknown size prefix")
            ELSE [panic |-> FALSE,
                  val |-> ScaleNumeral(matched[3],
                                       IF Len(matched[4]) = 0 THEN << >>
                                       ELSE Tail(matched[4]),
                                       MulSteps(matched[6][1]))]
    IN  Convert(szRxFind(s))

-----------------------------------------------------------------------------
(* Numeric fields and the display format *)

RECURSIVE NumeralLess(_, _)
\* a < b for two digit strings of the same length
NumeralLess(a, b) ==
    IF Len(a) = 0 THEN FALSE
    ELSE IF a[1] # b[1]
    THEN \E i, j \in 0..9 : /\ ToString(i) = a[1]
                            /\ ToString(j) = b[1]
                            /\ i < j
    ELSE NumeralLess(Tail(a), Tail(b))

\* 1<<32 - 1, the largest value strconv.ParseUint(s, 10, 32) returns
MaxUint32 == <<"4", "2", "9", "4", "9", "6", "7", "2", "9", "5">>

\* strconv.ParseUint(s, 10, 32): a syntax error for an empty string or any
\* character that is no digit, a range error above 1<<32 - 1
ParseUint32(s) ==
    LET Ranged(n) ==
            IF \/ Len(n) > Len(MaxUint32)
               \/ Len(n) = Len(MaxUint32) /\ NumeralLess(MaxUint32, n)
            THEN [err |-> TRUE, msg |-> "value out of range"]
            ELSE [err |-> FALSE, val |-> n]
    IN  IF Len(s) = 0 \/ \E i \in 1..Len(s) : ~IsDigit(s[i])
        THEN [err |-> TRUE, msg |-> "invalid syntax"]
        ELSE Ranged(StripZeros(s))

DigitVal(c) == CHOOSE i \in 0..9 : ToString(i) = c

RECURSIVE NumeralVal(_)
\* the value of a short numeral (at most nine digits)
NumeralVal(d) ==
    IF Len(d) = 0 THEN 0
    ELSE 10 * NumeralVal(SubSeq(d, 1, Len(d) - 1)) + DigitVal(d[Len(d)])

sizes == << "", "KB", "MB", "GB", "TB", "PB", "EB" >>

\* convertBytesToHumanReadable(s) for a numeral s: e = floor(log1000 s),
\* val = floor(s / 1000^e * 10 + 0.5) / 10, printed with one decimal below
\* 10 and none otherwise (%.0f rounds a half to the even digit).  The result
\* is the pair <<digits text, suffix>>.
convertBytesToHumanReadable(s) ==
    IF Len(s) = 1
    THEN << s, "" >>
    ELSE LET e == (Len(s) - 1) \div 3
             lead == Len(s) - 3 * e
             padded == s \o <<"0", "0">>
             tenths == NumeralVal(SubSeq(padded, 1, lead + 1))
                       + (IF DigitVal(padded[lead + 2]) >= 5 THEN 1 ELSE 0)
             whole == tenths \div 10
             half == tenths % 10 = 5
             rounded == IF tenths % 10 > 5 \/ (half /\ whole % 2 = 1)
                        THEN whole + 1 ELSE whole
         IN  IF tenths < 100
             THEN << <<ToString(tenths \div 10), ".", ToString(tenths % 10)>>,
                     sizes[e + 1] >>
             ELSE << <<ToString(rounded)>>, sizes[e + 1] >>

-----------------------------------------------------------------------------
(* Entities: Controller (lines 49-56), Array (58-63), Drive (65-76) *)

\* (*Controller).Describe: "%s in slot %d"
ControllerDescribe(ctl) == << ctl.Name, " in slot ", ctl.Slot >>

\* (*Array).Describe: "%c (%s)"
ArrayDescribe(arr) == << arr.Id, " (", arr.Type, ")" >>

\* (*Drive).Describe: "%s %s (%s, %s)"
DriveDescribe(d) ==
    << IF d.Physical THEN "physical" ELSE "logical", " ", d.Id, " (",
       IF d.Physical THEN d.Type ELSE d.RaidMode, ", ",
       convertBytesToHumanReadable(d.Size), ")" >>

\* the zero value of Drive
ZeroDrive ==
    [Id |-> "", RaidMode |-> "", Status |-> << >>, Size |-> <<"0">>,
     Physical |-> FALSE, Type |-> "", Port |-> "", Box |-> <<"0">>,
     Bay |-> <<"0">>]

\* the array genmetrics seeds every controller with
UnassignedArray ==
    [Id |-> "U", Type |-> "unassigned", UnusedSpace |-> <<"0">>,
     Drives |-> << >>]

-----------------------------------------------------------------------------
(* Line field extractors.  A line's text is given by its form, the shape   *)
(* the regular expressions tell apart, and the fields they capture:        *)
(*   "ctl"            <name> in Slot <slot><type>(sn: <sn>)                *)
(*   "array"          array <id> (<type>, Unused Space:<size>)             *)
(*   "arrayother"     starts with "array", arrRx does not match            *)
(*   "logicaldrive"   logicaldrive <id> (<size>, <raid>, <status>)         *)
(*   "logicalother"   starts with "logicaldrive", logRx does not match     *)
(*   "physicaldrive"  physicaldrive <id> (port <port>:box <box>:bay <bay>, *)
(*                    <type>, <size>, <status>)                            *)
(*   "other"          any other text that starts with no space             *)
(*   "empty"          no text at all                                       *)
(* A finder returns << >> for no match, else the submatches, matched[k] of *)
(* the code at position k + 1.                                             *)

ctlRxFind(s) ==
    IF s.form = "ctl" THEN << s, s.name, s.slot, s.type, s.sn >> ELSE << >>

arrRxFind(s) ==
    IF s.form = "array" THEN << s, s.id, s.type, s.size >> ELSE << >>

logRxFind(s) ==
    IF s.form = "logicaldrive"
    THEN << s, s.id, s.size, s.raid, s.status >>
    ELSE << >>

physRxFind(s) ==
    IF s.form = "physicaldrive"
    THEN << s, s.id, s.port, s.box, s.bay, s.type, s.size, s.status >>
    ELSE << >>

\* strings.HasPrefix(s, prefix) for the three prefixes the code asks about
HasPrefix(s, prefix) ==
    CASE prefix = "array" -> s.form \in {"array", "arrayother"}
      [] prefix = "logicaldrive" -> s.form \in {"logicaldrive", "logicalother"}
      [] prefix = "physicaldrive" -> s.form = "physicaldrive"
      [] OTHER -> FALSE

ControllerParse(s) ==
    LET matched == ctlRxFind(s)
        Parsed(ui) ==
            IF ui.err
            THEN Panic(ui.msg)
            ELSE [panic |-> FALSE,
                  val |-> [Name |-> matched[2], Type |-> matched[4],
                           Slot |-> ui.val, SerialNumber |-> matched[5],
                           Arrays |-> << >>, CurrentArray |-> 0]]
    IN  IF Len(matched) = 0
        THEN Panic("index out of range")
        ELSE Parsed(ParseUint32(matched[3]))

ArrayParse(s) ==
    LET matched == arrRxFind(s)
        Parsed(sz) ==
            IF sz.panic
            THEN sz
            ELSE [panic |-> FALSE,
                  val |-> [Id |-> matched[2], Type |-> matched[3],
                           UnusedSpace |-> sz.val, Drives |-> << >>]]
    IN  IF Len(matched) = 0
        THEN Panic("index out of range")
        ELSE Parsed(convertHumanReadableToBytes(matched[4]))

DriveParse(s) ==
    IF HasPrefix(s, "logicaldrive")
    THEN LET matched == logRxFind(s)
             Logical(sz) ==
                 IF sz.panic
                 THEN sz
                 ELSE [panic |-> FALSE,
                       val |-> [ZeroDrive EXCEPT
                                  !.Id = matched[2],
                                  !.Size = sz.val,
                                  !.RaidMode = matched[4],
                                  !.Status = matched[5],
                                  !.Physical = FALSE]]
         IN  IF Len(matched) = 0
             THEN Panic("index out of range")
             ELSE Logical(convertHumanReadableToBytes(matched[3]))
    ELSE IF HasPrefix(s, "physicaldrive")
    THEN LET matched == physRxFind(s)
             Physical(box, bay, sz) ==
                 IF box.err THEN Panic(box.msg)
                 ELSE IF bay.err THEN Panic(bay.msg)
                 ELSE IF sz.panic THEN sz
                 ELSE [panic |-> FALSE,
                       val |-> [ZeroDrive EXCEPT
                                  !.Id = matched[2],
                                  !.Port = matched[3],
                                  !.Box = box.val,
                                  !.Bay = bay.val,
                                  !.Type = matched[6],
                                  !.Size = sz.val,
                                  !.Status = matched[8],
                                  !.Physical = TRUE]]
         IN  IF Len(matched) = 0
             THEN Panic("index out of range")
             ELSE Physical(ParseUint32(matched[4]), ParseUint32(matched[5]),
                           convertHumanReadableToBytes(matched[7]))
    ELSE Panic("cannot determine drive type")

\* Add as it would be if the current array were taken before the append
ControllerAdd_StaleCurrent(ctl, a) ==
    [ctl EXCEPT !.Arrays = Append(@, a),
                !.CurrentArray = Len(ctl.Arrays)]

\* (*Controller).Add: the array is appended and becomes the current array
ControllerAdd(ctl, a) ==
    [ctl EXCEPT !.Arrays = Append(@, a),
                !.CurrentArray = Len(ctl.Arrays) + 1]

\* (*Array).Add
ArrayAdd(arr, d) == [arr EXCEPT !.Drives = Append(@, d)]

-----------------------------------------------------------------------------
(* The lines of a `ctrl all show config` report.  A line is its count of   *)
(* leading spaces (depth) and the text after them.                         *)

\* deepest indentation a report line is drawn with
MaxDepth == 7

Line(depth, text) == [depth |-> depth, text |-> text]

EmptyText == [form |-> "empty"]
OtherText == [form |-> "other"]

CtlText(slot) ==
    [form |-> "ctl", name |-> "Smart Array P420i", slot |-> slot,
     type |-> " ", sn |-> "ABC123"]

ArrayText(id, size) ==
    [form |-> "array", id |-> id, type |-> "SAS", size |-> size]

LogicalText(id, size, status) ==
    [form |-> "logicaldrive", id |-> id, size |-> size, raid |-> "RAID 1",
     status |-> status]

PhysicalText(id, box, size, status) ==
    [form |-> "physicaldrive", id |-> id, port |-> "1I", box |-> box,
     bay |-> <<"1">>, type |-> "SAS", size |-> size, status |-> status]

StatusOK == <<"OK">>
Size279GB == <<"2", "7", "9", " ", "G", "B">>
Size300GB == <<"3", "0", "0", " ", "G", "B">>
Size0MB == <<" ", "0", " ", " ", "M", "B">>
\* the text of the report "Unused Space: 0  B": a unit szRx does not know
Size0B == <<" ", "0", " ", " ", "B">>
\* a number and no unit
Size279 == <<"2", "7", "9">>
\* a slot above 1<<32 - 1
SlotTooBig == <<"9", "9", "9", "9", "9", "9", "9", "9", "9", "9", "9">>

\* lines the pass goes on after
GoodLines ==
    { Line(0, EmptyText),
      Line(0, CtlText(<<"0">>)),
      Line(0, CtlText(<<"1">>)),
      Line(3, ArrayText("A", Size0MB)),
      Line(3, ArrayText("B", Size0MB)),
      Line(3, ArrayText("U", Size0MB)),
      Line(3, OtherText),
      Line(6, LogicalText("1", Size279GB, StatusOK)),
      Line(6, PhysicalText("1I:1:1", <<"1">>, Size300GB, StatusOK)) }

\* lines that are fatal wherever they stand
BadLines ==
    { Line(0, OtherText),
      Line(0, CtlText(SlotTooBig)),
      Line(3, [form |-> "arrayother"]),
      Line(3, ArrayText("A", Size0B)),
      Line(6, [form |-> "logicalother"]),
      Line(6, LogicalText("1", Size279, StatusOK)),
      Line(6, PhysicalText("1I:1:1", <<"x">>, Size300GB, StatusOK)),
      Line(6, OtherText) }
    \cup { Line(d, OtherText) : d \in (1..MaxDepth) \ {3, 6} }

Lines == GoodLines \cup BadLines

-----------------------------------------------------------------------------
(* genmetrics: one iteration of the loop over the lines.  The loop's state *)
(* is [controllers, currentController]; an iteration yields the new state, *)
(* or a panic.                                                             *)

Going(cs, cur) ==
    [panic |-> FALSE, controllers |-> cs, currentController |-> cur]

\* case 0 as it would be without the unassigned array
Case0_NoUnassigned(cs, cur, text) ==
    LET Started(c) ==
            IF c.panic THEN c ELSE Going(Append(cs, c.val), Len(cs) + 1)
    IN  Started(ControllerParse(text))

\* case 0: a controller line
Case0(cs, cur, text) ==
    LET Started(c) ==
            IF c.panic
            THEN c
            ELSE Going(Append(cs, [c.val EXCEPT
                                     !.Arrays = <<UnassignedArray>>]),
                       Len(cs) + 1)
    IN  Started(ControllerParse(text))

\* case 3 as it would be without the test for the "array" prefix
Case3_NoPrefixCheck(cs, cur, text) ==
    LET Added(a) ==
            IF a.panic THEN a
            ELSE IF cur = 0
            THEN Panic("nil pointer dereference")
            ELSE Going([cs EXCEPT ![cur] = ControllerAdd(@, a.val)], cur)
    IN  Added(ArrayParse(text))

\* case 3: an array line
Case3(cs, cur, text) ==
    LET Added(a) ==
            IF a.panic THEN a
            ELSE IF cur = 0
            THEN Panic("nil pointer dereference")
            ELSE Going([cs EXCEPT ![cur] = ControllerAdd(@, a.val)], cur)
    IN  IF HasPrefix(text, "array")
        THEN Added(ArrayParse(text))
        ELSE Going(cs, cur)

\* case 6: a drive line
Case6(cs, cur, text) ==
    IF cur = 0
    THEN Panic("nil pointer dereference")
    ELSE LET arr == cs[cur].CurrentArray
             Added(d) ==
                 IF d.panic THEN d
                 ELSE IF arr = 0
                 THEN Panic("nil pointer dereference")
                 ELSE Going([cs EXCEPT
                               ![cur].Arrays[arr] = ArrayAdd(@, d.val)],
                            cur)
         IN  Added(DriveParse(text))

\* default: any other count of leading spaces
CaseDefault(n, line) ==
    [panic |-> TRUE,
     msg |-> << "cannot parse line", n, "with", line.depth,
                "trailing spaces" >>]

\* the loop body as it would be if the default case let the line pass
LineStep_DefaultSkips(cs, cur, n, line) ==
    IF line.depth = 0 /\ line.text.form = "empty"
    THEN Going(cs, cur)
    ELSE CASE line.depth = 0 -> Case0(cs, cur, line.text)
           [] line.depth = 3 -> Case3(cs, cur, line.text)
           [] line.depth = 6 -> Case6(cs, cur, line.text)
           [] OTHER -> Going(cs, cur)

\* the body of the range loop for line number n
LineStep(cs, cur, n, line) ==
    IF line.depth = 0 /\ line.text.form = "empty"
    THEN Going(cs, cur)
    ELSE CASE line.depth = 0 -> Case0(cs, cur, line.text)
           [] line.depth = 3 -> Case3(cs, cur, line.text)
           [] line.depth = 6 -> Case6(cs, cur, line.text)
           [] OTHER -> CaseDefault(n, line)

RECURSIVE Flatten(_)
\* the concatenation of a sequence of sequences
Flatten(ss) == IF Len(ss) = 0 THEN << >> ELSE Head(ss) \o Flatten(Tail(ss))

\* the rows of one array
ArrayLabels(ctl, arr) ==
    [k \in 1..Len(arr.Drives) |->
        << ControllerDescribe(ctl), ArrayDescribe(arr),
           DriveDescribe(arr.Drives[k]), arr.Drives[k].Status >>]

\* the three nested loops that build labels
MakeLabels(cs) ==
    Flatten([i \in 1..Len(cs) |->
        Flatten([j \in 1..Len(cs[i].Arrays) |->
            ArrayLabels(cs[i], cs[i].Arrays[j])])])

\* one more line is read and handled
GenLine(line) ==
    /\ pc = "parsing"
    /\ Len(hpinfo) < MaxLines
    /\ LET Handle(r) ==
               /\ hpinfo' = Append(hpinfo, line)
               /\ IF r.panic
                  THEN /\ pc' = "panic"
                       /\ panicMsg' = r.msg
                       /\ UNCHANGED << lineNo, controllers,
                                       currentController >>
                  ELSE /\ lineNo' = lineNo + 1
                       /\ controllers' = r.controllers
                       /\ currentController' = r.currentController
                       /\ UNCHANGED << pc, panicMsg >>
       IN  Handle(LineStep(controllers, currentController, lineNo, line))
    /\ UNCHANGED << ret, sizeVars, collectVars >>

\* the lines are used up: the labels are built and the result is returned
GenReturn ==
    /\ pc = "parsing"
    /\ pc' = "done"
    /\ ret' = [Labels |-> MakeLabels(controllers), Controller |-> controllers]
    /\ UNCHANGED << hpinfo, lineNo, controllers, currentController, panicMsg,
                    sizeVars, collectVars >>

\* the report holds a line after the one the pass panicked at; it is never
\* read
ReportContinues(line) ==
    /\ pc = "panic"
    /\ Len(hpinfo) = lineNo + 1
    /\ Len(hpinfo) < MaxLines
    /\ hpinfo' = Append(hpinfo, line)
    /\ UNCHANGED << lineNo, controllers, currentController, ret, pc, panicMsg,
                    sizeVars, collectVars >>

\* no outcome yet
NotCalled == [pending |-> TRUE]

SizeIdle == sizeIn = << >> /\ sizeOut = NotCalled

ParseIdle ==
    /\ hpinfo = << >> /\ lineNo = 0 /\ controllers = << >>
    /\ currentController = 0 /\ ret = "none" /\ pc = "idle"
    /\ panicMsg = << >>

CollectIdle ==
    /\ gm = "none" /\ cpc = "idle" /\ labelIdx = 0 /\ ctrlIdx = 0
    /\ statText = << >>
    /\ statRet = << >> /\ statIdx = 0 /\ lastbat = "none" /\ ch = << >>

\* genmetrics is entered
Init ==
    /\ hpinfo = << >> /\ lineNo = 0 /\ controllers = << >>
    /\ currentController = 0 /\ ret = "none" /\ pc = "parsing"
    /\ panicMsg = << >>
    /\ SizeIdle
    /\ CollectIdle

Next ==
    \/ \E line \in Lines : GenLine(line)
    \/ GenReturn
    \/ \E line \in Lines : ReportContinues(line)

Spec == Init /\ [][Next]_vars

-----------------------------------------------------------------------------
(* Properties of genmetrics, read off the report hpinfo *)

\* hpinfo[k] is a non-empty line with a depth other than 0, 3 and 6
IsBadDepth(k) == hpinfo[k].depth \notin {0, 3, 6}

\* hpinfo[k] is a depth-0 controller header
IsCtlHeader(k) == hpinfo[k].depth = 0 /\ hpinfo[k].text.form = "ctl"

\* hpinfo[k] is a depth-3 array header
IsArrayHeader(k) == hpinfo[k].depth = 3 /\ hpinfo[k].text.form = "array"

\* hpinfo[k] is a depth-3 line that does not begin with "array"
IsSkipped(k) ==
    hpinfo[k].depth = 3 /\ hpinfo[k].text.form \notin {"array", "arrayother"}

\* hpinfo[k] is a depth-6 line
IsDriveLine(k) == hpinfo[k].depth = 6

\* the panic value that names line k (counted from 1 here, from 0 by the
\* code) and its depth
BadDepthMsg(k) ==
    << "cannot parse line", k - 1, "with", hpinfo[k].depth,
       "trailing spaces" >>

\* the lines the pass has handled without a panic
Handled == IF pc = "panic" THEN lineNo ELSE Len(hpinfo)

\* the last controller header before line k (0 if none)
CtlBefore(k) ==
    IF \E j \in 1..(k - 1) : IsCtlHeader(j)
    THEN CHOOSE j \in 1..(k - 1) :
            IsCtlHeader(j) /\ \A i \in (j + 1)..(k - 1) : ~IsCtlHeader(i)
    ELSE 0

\* the last array header before line k (0 if none)
ArrayBefore(k) ==
    IF \E j \in 1..(k - 1) : IsArrayHeader(j)
    THEN CHOOSE j \in 1..(k - 1) :
            IsArrayHeader(j) /\ \A i \in (j + 1)..(k - 1) : ~IsArrayHeader(i)
    ELSE 0

RECURSIVE DriveLinesUpTo(_)
\* the indices of the depth-6 lines among the first n lines, in order
DriveLinesUpTo(n) ==
    IF n = 0 THEN << >>
    ELSE IF IsDriveLine(n) THEN Append(DriveLinesUpTo(n - 1), n)
    ELSE DriveLinesUpTo(n - 1)

\* C2 as claimed: every non-empty line of the report whose depth is not 0, 3
\* or 6 makes the parse fail with the panic that names that very line and
\* its depth, and no Parsed value is returned, whatever lines precede it.
C2_EveryBadDepthLineIdentified ==
    \A k \in 1..Len(hpinfo) :
        IsBadDepth(k) =>
            /\ pc = "panic"
            /\ panicMsg = BadDepthMsg(k)
            /\ ret = "none"

\* C2 amended: a report that holds a line whose depth is not 0, 3 or 6 fails
\* and returns no Parsed value; the failure names that line's number and
\* depth when the pass reaches the line, that is when every line before it
\* was accepted.
C2_ReachedBadDepthLineIdentified ==
    \A k \in 1..Len(hpinfo) :
        IsBadDepth(k) =>
            /\ pc = "panic"
            /\ ret = "none"
            /\ (k = lineNo + 1 => panicMsg = BadDepthMsg(k))

\* a bad-depth line is reached after a controller, an array and a drive
\* have been built
C2_Witness ==
    /\ pc = "panic"
    /\ Len(hpinfo) = lineNo + 1
    /\ Len(hpinfo) >= 4
    /\ IsBadDepth(Len(hpinfo))
    /\ \E i \in 1..Len(controllers) :
          \E j \in 1..Len(controllers[i].Arrays) :
              Len(controllers[i].Arrays[j].Drives) > 0

\* C3 as claimed: every fatal parse condition comes back to the caller as an
\* error value of the parse; no pass ends in a panic that unwinds genmetrics
\* and Collect.
C3_NoPanicLeavesParse == pc # "panic"

\* C4: when genmetrics returns, Labels holds one row per depth-6 line of the
\* report, in the order of those lines, and each row carries the description
\* of the last controller header and of the last array header before its
\* line, and the drive's id and status.
C4_LabelsFollowDriveLines ==
    pc = "done" =>
        LET ds == DriveLinesUpTo(Len(hpinfo))
        IN  /\ Len(ret.Labels) = Len(ds)
            /\ \A n \in 1..Len(ds) :
                  LET k == ds[n]
                      c == CtlBefore(k)
                      a == ArrayBefore(k)
                      row == ret.Labels[n]
                  IN  /\ c > 0 /\ a > c
                      /\ row[1] = << hpinfo[c].text.name, " in slot ",
                                     StripZeros(hpinfo[c].text.slot) >>
                      /\ row[2] = << hpinfo[a].text.id, " (",
                                     hpinfo[a].text.type, ")" >>
                      /\ row[3][3] = hpinfo[k].text.id
                      /\ row[3][1] = (IF hpinfo[k].text.form = "physicaldrive"
                                      THEN "physical" ELSE "logical")
                      /\ row[4] = hpinfo[k].text.status

\* a report with a drive in each of two arrays has been parsed
C4_Witness ==
    /\ pc = "done"
    /\ Len(ret.Labels) = 2
    /\ ret.Labels[1][2] # ret.Labels[2][2]
    /\ ret.Labels[1][3] # ret.Labels[2][3]

\* a drive is kept when a second controller follows its array
C4_WitnessLaterController ==
    /\ pc = "done"
    /\ Len(ret.Controller) = 2
    /\ Len(ret.Labels) = 1
    /\ IsCtlHeader(Len(hpinfo) - 1)

\* C5 as claimed: within each controller's Arrays no two arrays have the
\* same identifier.
C5_ArrayIdsUnique ==
    \A c \in 1..Len(controllers) :
        \A i, j \in 1..Len(controllers[c].Arrays) :
            i # j => controllers[c].Arrays[i].Id # controllers[c].Arrays[j].Id

\* the array headers between controller header k and the next one, among
\* the lines handled so far
ArrayHeadersOf(k) ==
    { j \in (k + 1)..Handled : IsArrayHeader(j) /\ CtlBefore(j) = k }

RECURSIVE CtlHeadersUpTo(_)
\* the indices of the controller headers among the first n lines, in order
CtlHeadersUpTo(n) ==
    IF n = 0 THEN << >>
    ELSE IF IsCtlHeader(n) THEN Append(CtlHeadersUpTo(n - 1), n)
    ELSE CtlHeadersUpTo(n - 1)

\* C6: at every point of the pass and in the result, every controller has
\* at least one array, its first array is the unassigned array its header
\* created, and the arrays after it are those of its array headers.
C6_UnassignedArrayFirst ==
    LET hs == CtlHeadersUpTo(Handled)
    IN  /\ Len(controllers) = Len(hs)
        /\ \A c \in 1..Len(controllers) :
              /\ Len(controllers[c].Arrays) >= 1
              /\ controllers[c].Arrays[1] = UnassignedArray
              /\ Len(controllers[c].Arrays)
                    = 1 + Cardinality(ArrayHeadersOf(hs[c]))
        /\ (pc = "done" => ret.Controller = controllers)

\* a controller with two explicit arrays has been returned
C6_Witness ==
    /\ pc = "done"
    /\ \E c \in 1..Len(ret.Controller) : Len(ret.Controller[c].Arrays) = 3

\* C10: a depth-3 line that does not begin with "array" raises no panic and
\* changes neither the controllers, their arrays and drives, nor the two
\* cursors; a drive line handled right after it is appended to the array
\* that was current before it.
C10_SkippedLineChangesNothing ==
    [][ /\ (/\ pc = "parsing"
            /\ Len(hpinfo') = Len(hpinfo) + 1
            /\ hpinfo'[Len(hpinfo')].depth = 3
            /\ hpinfo'[Len(hpinfo')].text.form \notin {"array", "arrayother"})
           => /\ pc' = "parsing"
              /\ UNCHANGED << controllers, currentController, ret, panicMsg >>
        /\ (/\ pc = "parsing" /\ pc' = "parsing"
            /\ Len(hpinfo) >= 1
            /\ IsSkipped(Len(hpinfo))
            /\ Len(hpinfo') = Len(hpinfo) + 1
            /\ hpinfo'[Len(hpinfo')].depth = 6)
           => LET cur == currentController
                  arr == controllers[cur].CurrentArray
              IN  /\ currentController' = cur
                  /\ \E d \in {DriveParse(hpinfo'[Len(hpinfo')].text).val} :
                        controllers' =
                            [controllers EXCEPT
                                ![cur].Arrays[arr].Drives = Append(@, d)]
      ]_vars

\* a drive line has been handled right after an ignored depth-3 line
C10_Witness ==
    /\ pc = "parsing"
    /\ Len(hpinfo) >= 2
    /\ IsSkipped(Len(hpinfo) - 1)
    /\ IsDriveLine(Len(hpinfo))

-----------------------------------------------------------------------------
(* convertHumanReadableToBytes on its own *)

SizeAlphabet == {"5", "9", ".", " ", "K", "M", "G", "T", "B"}

\* the size texts the function is called on: every text of at most
\* MaxStrLen characters, and the two of the documentation
SizeTexts ==
    UNION { [1..n -> SizeAlphabet] : n \in 0..MaxStrLen }
        \cup { Size279GB, <<"5">> }

ConvertSize ==
    /\ sizeOut = NotCalled
    /\ sizeOut' = convertHumanReadableToBytes(sizeIn)
    /\ UNCHANGED << sizeIn, parseVars, collectVars >>

InitSize ==
    /\ sizeIn \in SizeTexts
    /\ sizeOut = NotCalled
    /\ ParseIdle
    /\ CollectIdle

NextSize == ConvertSize

SpecSize == InitSize /\ [][NextSize]_vars

\* the reading of a size text the contract gives: white space, a number
\* with an optional fraction, and an optional unit KB, MB, GB or TB
ContractReading(s) ==
    LET a == SkipSpaces(s, 1)
        b == SkipDigits(s, a)
        hasFrac == b + 1 <= Len(s) /\ s[b] = "." /\ IsDigit(s[b + 1])
        c == IF hasFrac THEN SkipDigits(s, b + 1) ELSE b
        d == SkipSpaces(s, c)
        int == SubSeq(s, a, b - 1)
        frac == SubSeq(s, b + 1, c - 1)
    IN  IF b = a
        THEN [ok |-> FALSE]
        ELSE IF d = Len(s) + 1
        THEN [ok |-> TRUE, int |-> int, frac |-> frac, k |-> 0]
        ELSE IF d + 1 = Len(s) /\ s[d + 1] = "B"
                /\ s[d] \in {"K", "M", "G", "T"}
        THEN [ok |-> TRUE, int |-> int, frac |-> frac,
              k |-> CASE s[d] = "K" -> 1 [] s[d] = "M" -> 2
                      [] s[d] = "G" -> 3 [] s[d] = "T" -> 4]
        ELSE [ok |-> FALSE]

\* number * 1000^k as a numeral (whole bytes)
ContractBytes(r) ==
    StripZeros(r.int \o SubSeq(r.frac \o Zeros(3 * r.k), 1, 3 * r.k))

\* C8 as claimed: every text <number>[.<fraction>] with an optional unit is
\* accepted and yields number * 1000^k, the number itself without a unit
\* ("279 GB" yields 279000000000 and "5" yields 5); any other text is
\* reported as a format error.
C8_ParseSizeContract ==
    sizeOut # NotCalled =>
        LET r == ContractReading(sizeIn)
        IN  IF r.ok
            THEN sizeOut = [panic |-> FALSE, val |-> ContractBytes(r)]
            ELSE sizeOut = Panic("no match for")

-----------------------------------------------------------------------------
(* Status extractor: ArrayStatus.  A line of the status report is a        *)
(* sequence of pieces: the seven labels, words, digits and other text.     *)

LblStatus == "Controller Status: "
LblScan == "Surface Scan Mode: "
LblCache == "Cache Status: "
LblCacheTotal == "Total Cache Size: "
LblCacheFree == "Total Cache Memory Available: "
LblBatCount == "Battery/Capacitor Count: "
LblBatStat == "Battery/Capacitor Status: "

\* pieces made of letters only
WordPieces == {"OK", "Idle", "Recharging", "Failed", "undefined",
               "Frobnicating"}

\* \w matches letters, digits and the underscore
IsWord(p) == p \in WordPieces \/ p \in Digits

RECURSIVE SkipWord(_, _)
\* first index >= i of line whose piece is not matched by \w
SkipWord(line, i) ==
    IF i <= Len(line) /\ IsWord(line[i]) THEN SkipWord(line, i + 1) ELSE i

\* the places of a label piece in a line
Places(line, lbl) == { i \in 1..Len(line) : line[i] = lbl }

\* the submatch of the leftmost match among the candidate places ps, where
\* Sub(i) is the submatch of a match at place i and << >> means no match
\* there; << >> if the expression matches nowhere
Leftmost(ps, Sub(_)) ==
    LET ok == { i \in ps : Len(Sub(i)) > 0 }
    IN  IF ok = {} THEN << >>
        ELSE Sub(CHOOSE i \in ok : \A j \in ok : i <= j)

\* "<label>(\w+)"
FindWord(line, lbl) ==
    LET Sub(i) == SubSeq(line, i + 1, SkipWord(line, i + 1) - 1)
    IN  Leftmost(Places(line, lbl), Sub)

\* "<label>(\d+) MB"
FindMB(line, lbl) ==
    LET Sub(i) ==
            LET e == SkipDigits(line, i + 1)
            IN  IF e <= Len(line) /\ line[e] = " MB"
                THEN SubSeq(line, i + 1, e - 1) ELSE << >>
    IN  Leftmost(Places(line, lbl), Sub)

\* "<label>(\d+)$"
FindDigitsEnd(line, lbl) ==
    LET Sub(i) ==
            IF SkipDigits(line, i + 1) = Len(line) + 1
            THEN SubSeq(line, i + 1, Len(line)) ELSE << >>
    IN  Leftmost(Places(line, lbl), Sub)

\* "<label>(.+)$"
FindRest(line, lbl) ==
    LET Sub(i) == SubSeq(line, i + 1, Len(line))
    IN  Leftmost(Places(line, lbl), Sub)

\* the keys of the map ctrlstatRegexp
StatNames ==
    {"status", "scan", "cache", "cachetotal", "cachefree", "batcount",
     "batstat"}

\* ctrlstatRegexp[name].FindStringSubmatch(line): matched[1], or << >> when
\* the expression does not match
ctrlstatFind(name, line) ==
    CASE name = "status" -> FindWord(line, LblStatus)
      [] name = "scan" -> FindWord(line, LblScan)
      [] name = "cache" -> FindWord(line, LblCache)
      [] name = "cachetotal" -> FindMB(line, LblCacheTotal)
      [] name = "cachefree" -> FindMB(line, LblCacheFree)
      [] name = "batcount" -> FindDigitsEnd(line, LblBatCount)
      [] name = "batstat" -> FindRest(line, LblBatStat)

\* the expressions that match a line
Matching(line) == { name \in StatNames : Len(ctrlstatFind(name, line)) > 0 }

ArrStat(name, r) == [name |-> name, ret |-> r]

\* the loop body without its break: every matching expression appends
LineObservations_NoBreak(line) ==
    IF Len(line) = 0 \/ Matching(line) = {}
    THEN { << >> }
    ELSE IF Cardinality(Matching(line)) = 1
    THEN { << ArrStat(n, ctrlstatFind(n, line)) >> : n \in Matching(line) }
    ELSE { << ArrStat(q[1], ctrlstatFind(q[1], line)),
              ArrStat(q[2], ctrlstatFind(q[2], line)) >> :
           q \in { r \in Matching(line) \X Matching(line) : r[1] # r[2] } }

\* what one line may append to ret: nothing for an empty line or a line no
\* expression matches; else the observation of the first expression that
\* matches, in the order the range over the map ctrlstatRegexp yields,
\* which the language leaves open
LineObservations(line) ==
    IF Len(line) = 0 \/ Matching(line) = {}
    THEN { << >> }
    ELSE { << ArrStat(n, ctrlstatFind(n, line)) >> : n \in Matching(line) }

\* the lines a status report is made of
StatLines ==
    { << >>,
      << "   ", "Smart Array P420i in Slot 0" >>,
      << "   ", LblStatus, "OK" >>,
      << "   ", LblStatus, "Frobnicating" >>,
      << "   ", LblScan, "Idle" >>,
      << "   ", LblCache, "OK" >>,
      << "   ", LblCacheTotal, "5", "1", "2", " MB" >>,
      << "   ", LblCacheFree, "9", "6", " MB" >>,
      << "   ", LblCacheTotal, "5", "1", "2" >>,
      << "   ", LblBatCount, "2" >>,
      << "   ", LblBatCount, "1" >>,
      << "   ", LblBatCount, "2", " " >>,
      << "   ", LblBatStat, "OK" >>,
      << "   ", LblBatStat, "Failed", " (Replace Batteries)" >>,
      << "   ", LblCache, "OK", " ", LblStatus, "undefined" >> }

-----------------------------------------------------------------------------
(* Status normalizer and collector.Collect *)

drive_status_id == (<<"OK">> :> 0) @@ (<<"undefined">> :> 99)
ctrlstat_id == (<<"OK">> :> 0) @@ (<<"undefined">> :> 99)
scan_id == (<<"Idle">> :> 0) @@ (<<"undefined">> :> 99)
cache_id == (<<"OK">> :> 0) @@ (<<"undefined">> :> 99)
batstat_id ==
    (<<"OK">> :> 0) @@ (<<"Recharging">> :> 1)
        @@ (<<"Failed", " (Replace Batteries)">> :> 10)
        @@ (<<"undefined">> :> 99)

\* if _, ok := table[key]; ok { cstat = table[key] } else
\* { cstat = table["undefined"] }
StatusCode(table, key) ==
    IF key \in DOMAIN table THEN table[key] ELSE table[<<"undefined">>]

\* strings.Index(s, ","), counted from 1; 0 when there is no comma
IndexComma(s) ==
    IF \E i \in 1..Len(s) : s[i] = ","
    THEN CHOOSE i \in 1..Len(s) : s[i] = "," /\ \A j \in 1..(i - 1) : s[j] # ","
    ELSE 0

\* the key as it would be without the cut at the comma
DriveKey_NoCut(clabel) == clabel

\* clabel: label[3], cut before its first comma if it has one
DriveKey(clabel) ==
    IF IndexComma(clabel) > 0
    THEN SubSeq(clabel, 1, IndexComma(clabel) - 1)
    ELSE clabel

\* strconv.ParseFloat(s, 32) with the error dropped: 0 for a text that is
\* no number
ParseFloat(s) ==
    IF Len(s) > 0 /\ \A i \in 1..Len(s) : IsDigit(s[i])
    THEN NumeralVal(s) ELSE 0

\* a metric sent on ch; what is the index of the gm.Labels row or of the
\* observation it was made from
Metric(desc, value, labels, from) ==
    [desc |-> desc, value |-> value, labels |-> labels, from |-> from]

\* the rows Collect may be handed by genmetrics
DriveRow(status) ==
    << << "Smart Array P420i", " in slot ", <<"0">> >>,
       << "A", " (", "SAS", ")" >>,
       << "logical", " ", "1", " (", "RAID 1", ", ",
          << <<"279">>, "GB" >>, ")" >>,
       status >>

DriveStatuses ==
    << <<"OK">>, <<"OK", ",", " spun down">>, <<"Failed">>,
       <<"undefined">>, <<"Predictive Failure", ",", "OK">> >>

Ctl0 ==
    [Name |-> "Smart Array P420i", Type |-> " ", Slot |-> <<"0">>,
     SerialNumber |-> "ABC123", Arrays |-> << UnassignedArray >>,
     CurrentArray |-> 0]

Gms ==
    { [Labels |-> << >>, Controller |-> << >>],
      [Labels |-> [i \in 1..Len(DriveStatuses) |-> DriveRow(DriveStatuses[i])],
       Controller |-> << Ctl0 >>] }

\* GetHPInfo fails: the one row of NULL labels is sent
CollectNoReport ==
    /\ cpc = "start"
    /\ ch' = << Metric("hpraid_diskstate", 0,
                       << <<"NULL">>, <<"NULL">>, <<"NULL">>, <<"NULL">> >>,
                       0) >>
    /\ cpc' = "done"
    /\ UNCHANGED << gm, labelIdx, ctrlIdx, statText, statRet, statIdx,
                    lastbat, sizeVars, parseVars >>

\* GetHPInfo succeeds and genmetrics returns g
CollectParsed(g) ==
    /\ cpc = "start"
    /\ gm' = g
    /\ labelIdx' = 1
    /\ cpc' = "labels"
    /\ UNCHANGED << ctrlIdx, statText, statRet, statIdx, lastbat, ch,
                    sizeVars, parseVars >>

\* one iteration of the loop over gm.Labels
CollectLabel ==
    /\ cpc = "labels"
    /\ labelIdx <= Len(gm.Labels)
    /\ LET label == gm.Labels[labelIdx]
           cstat == StatusCode(drive_status_id, DriveKey(label[4]))
       IN  ch' = Append(ch, Metric("hpraid_diskstate", cstat, label, labelIdx))
    /\ labelIdx' = labelIdx + 1
    /\ UNCHANGED << gm, cpc, ctrlIdx, statText, statRet, statIdx, lastbat,
                    sizeVars, parseVars >>

\* the loop over gm.Labels ends; the loop over gm.Controller begins
CollectControllers ==
    /\ cpc = "labels"
    /\ labelIdx > Len(gm.Labels)
    /\ ctrlIdx' = 1
    /\ cpc' = IF Len(gm.Controller) >= 1 THEN "arraystatus" ELSE "done"
    /\ UNCHANGED << gm, labelIdx, statText, statRet, statIdx, lastbat, ch,
                    sizeVars, parseVars >>

\* ArrayStatus: the command fails and ret stays nil
StatusCommandFails ==
    /\ cpc = "arraystatus"
    /\ statText = << >>
    /\ statIdx' = 1
    /\ cpc' = "stats"
    /\ UNCHANGED << gm, labelIdx, ctrlIdx, statText, statRet, lastbat, ch,
                    sizeVars, parseVars >>

\* ArrayStatus: one iteration of the loop over the lines of the output
StatusLine(line, obs) ==
    /\ cpc = "arraystatus"
    /\ Len(statText) < MaxStatLines
    /\ obs \in LineObservations(line)
    /\ statText' = Append(statText, line)
    /\ statRet' = statRet \o obs
    /\ UNCHANGED << gm, cpc, labelIdx, ctrlIdx, statIdx, lastbat, ch,
                    sizeVars, parseVars >>

\* ArrayStatus returns ret
StatusReturn ==
    /\ cpc = "arraystatus"
    /\ statIdx' = 1
    /\ cpc' = "stats"
    /\ UNCHANGED << gm, labelIdx, ctrlIdx, statText, statRet, lastbat, ch,
                    sizeVars, parseVars >>

\* the metrics one observation makes Collect send, given lastbat as the
\* iteration has set it
StatMetrics(ctrl, statone, bat, from) ==
    CASE statone.name = "status" ->
            << Metric("status", StatusCode(ctrlstat_id, statone.ret),
                      << ctrl.Name, statone.ret >>, from) >>
      [] statone.name = "scan" ->
            << Metric("scan", StatusCode(scan_id, statone.ret),
                      << ctrl.Name, statone.ret >>, from) >>
      [] statone.name = "cache" ->
            << Metric("cache", StatusCode(cache_id, statone.ret),
                      << ctrl.Name, statone.ret >>, from) >>
      [] statone.name \in {"cachetotal", "cachefree"} ->
            << Metric(statone.name, ParseFloat(statone.ret),
                      << ctrl.Name, statone.ret >>, from) >>
      [] statone.name = "batcount" -> << >>
      [] statone.name = "batstat" ->
            << Metric("battery", StatusCode(batstat_id, statone.ret),
                      << ctrl.Name, bat, statone.ret >>, from) >>
      [] OTHER -> << >>

\* one iteration of the loop over the observations: lastbat is declared in
\* the loop body and set to "0" in every iteration, before the switch
CollectStat ==
    /\ cpc = "stats"
    /\ statIdx <= Len(statRet)
    /\ LET statone == statRet[statIdx]
           bat == IF statone.name = "batcount" THEN statone.ret ELSE <<"0">>
       IN  /\ lastbat' = bat
           /\ ch' = ch \o StatMetrics(gm.Controller[ctrlIdx], statone, bat,
                                      statIdx)
    /\ statIdx' = statIdx + 1
    /\ UNCHANGED << gm, cpc, labelIdx, ctrlIdx, statText, statRet,
                    sizeVars, parseVars >>

\* the loop over the observations ends; the next controller, if any
CollectNextController ==
    /\ cpc = "stats"
    /\ statIdx > Len(statRet)
    /\ ctrlIdx' = ctrlIdx + 1
    /\ cpc' = IF ctrlIdx < Len(gm.Controller) THEN "arraystatus" ELSE "done"
    /\ UNCHANGED << gm, labelIdx, statText, statRet, statIdx, lastbat, ch,
                    sizeVars, parseVars >>

InitCollect ==
    /\ gm = "none" /\ cpc = "start" /\ labelIdx = 0 /\ ctrlIdx = 0
    /\ statText = << >> /\ statRet = << >> /\ statIdx = 0
    /\ lastbat = "none" /\ ch = << >>
    /\ SizeIdle
    /\ ParseIdle

NextCollect ==
    \/ CollectNoReport
    \/ \E g \in Gms : CollectParsed(g)
    \/ CollectLabel
    \/ CollectControllers
    \/ StatusCommandFails
    \/ \E line \in StatLines : \E obs \in LineObservations(line) :
          StatusLine(line, obs)
    \/ StatusReturn
    \/ CollectStat
    \/ CollectNextController

SpecCollect == InitCollect /\ [][NextCollect]_vars

-----------------------------------------------------------------------------
(* Properties of ArrayStatus and Collect *)

\* the last battery-count observation before observation n (0 if none)
CountBefore(n) ==
    IF \E j \in 1..(n - 1) : statRet[j].name = "batcount"
    THEN CHOOSE j \in 1..(n - 1) :
            /\ statRet[j].name = "batcount"
            /\ \A i \in (j + 1)..(n - 1) : statRet[i].name # "batcount"
    ELSE 0

\* C1 as claimed: every battery row carries as battery_id the value of the
\* battery-count observation last seen before its battery-status
\* observation, "0" when there was none before it; a battery-count
\* observation sends no row.
C1_BatteryRowsCarryLastCount ==
    \A r \in 1..Len(ch) :
        /\ ch[r].desc = "battery" =>
              ch[r].labels[2] =
                  (IF CountBefore(ch[r].from) = 0 THEN <<"0">>
                   ELSE statRet[CountBefore(ch[r].from)].ret)
        /\ (ch[r].desc # "hpraid_diskstate") =>
              statRet[ch[r].from].name # "batcount"

\* the table's entry for a key, 99 for a key it does not hold
TableOr99(table, key) == IF key \in DOMAIN table THEN table[key] ELSE 99

\* the text before the first comma: the longest prefix without a comma
BeforeComma(s) ==
    LET n == CHOOSE n \in 0..Len(s) :
                /\ \A i \in 1..n : s[i] # ","
                /\ (n < Len(s) => s[n + 1] = ",")
    IN  SubSeq(s, 1, n)

\* C7: every row of a categorical status carries the code its table gives
\* the raw value, 99 when the table does not hold it; the key of a drive
\* row is the raw status before its first comma, the key of the other rows
\* the raw value as it is.
C7_StatusCodeIsTableEntryOr99 ==
    \A r \in 1..Len(ch) :
        LET m == ch[r]
        IN  /\ (m.desc = "hpraid_diskstate" /\ m.from > 0) =>
                  m.value = TableOr99(drive_status_id, BeforeComma(m.labels[4]))
            /\ m.desc = "status" =>
                  m.value = TableOr99(ctrlstat_id, m.labels[2])
            /\ m.desc = "scan" =>
                  m.value = TableOr99(scan_id, m.labels[2])
            /\ m.desc = "cache" =>
                  m.value = TableOr99(cache_id, m.labels[2])
            /\ m.desc = "battery" =>
                  m.value = TableOr99(batstat_id, m.labels[3])

\* "OK, spun down" was sent with code 0, "Predictive Failure, OK" and the
\* controller status "Frobnicating" with code 99, and a failed battery with
\* code 10
C7_Witness ==
    /\ \E r \in 1..Len(ch) :
          /\ ch[r].desc = "hpraid_diskstate"
          /\ ch[r].labels[4] = <<"OK", ",", " spun down">>
          /\ ch[r].value = 0
    /\ \E r \in 1..Len(ch) :
          /\ ch[r].desc = "hpraid_diskstate"
          /\ ch[r].labels[4] = <<"Predictive Failure", ",", "OK">>
          /\ ch[r].value = 99
    /\ \E r \in 1..Len(ch) :
          /\ ch[r].desc = "status"
          /\ ch[r].labels[2] = <<"Frobnicating">>
          /\ ch[r].value = 99
    /\ \E r \in 1..Len(ch) :
          /\ ch[r].desc = "battery"
          /\ ch[r].value = 10

RECURSIVE MatchedLinesUpTo(_)
\* the indices of the lines, among the first n of the status report, that
\* are not empty and that some expression matches, in order
MatchedLinesUpTo(n) ==
    IF n = 0 THEN << >>
    ELSE IF Len(statText[n]) > 0 /\ Matching(statText[n]) # {}
    THEN Append(MatchedLinesUpTo(n - 1), n)
    ELSE MatchedLinesUpTo(n - 1)

\* C9 as claimed: ArrayStatus returns one observation per non-empty line
\* that an expression matches and none for another line, in the order of
\* the lines, and the category of a line's observation is fixed by the line
\* alone: the one expression that matches it.
C9_CategoryFixedByLine ==
    LET ms == MatchedLinesUpTo(Len(statText))
    IN  /\ Len(statRet) = Len(ms)
        /\ \A n \in 1..Len(ms) :
              /\ Matching(statText[ms[n]]) = { statRet[n].name }
              /\ statRet[n].ret = ctrlstatFind(statRet[n].name, statText[ms[n]])

\* C9 amended: ArrayStatus returns one observation per non-empty line that
\* an expression matches and none for another line, in the order of the
\* lines; the category is that of an expression that matches the line and
\* the value is that expression's submatch.  (A line that two expressions
\* match is reported under either.)
C9_OneObservationPerMatchedLine ==
    LET ms == MatchedLinesUpTo(Len(statText))
    IN  /\ Len(statRet) = Len(ms)
        /\ \A n \in 1..Len(ms) :
              /\ statRet[n].name \in Matching(statText[ms[n]])
              /\ statRet[n].ret = ctrlstatFind(statRet[n].name, statText[ms[n]])

\* a report of three lines, the second matched by no expression, has given
\* two observations of different categories
C9_Witness ==
    /\ cpc = "stats"
    /\ Len(statText) = 3
    /\ Len(statText[2]) > 0
    /\ Matching(statText[2]) = {}
    /\ Len(statRet) = 2
    /\ statRet[1].name # statRet[2].name

\* a line that two expressions match has been reported under the second
C9_WitnessTwoMatches ==
    /\ Len(statText) = 1
    /\ Cardinality(Matching(statText[1])) = 2
    /\ Len(statRet) = 1
    /\ statRet[1].name = "status"

=============================================================================
